---- MODULE Spec2Model ----
(***************************************************************************)
(* Lifecycle of the gomelon/gows runtime: command resolution (Run), the    *)
(* server command (ServerCommand.Run), and the multi-connector server      *)
(* (DefaultServer.Start / Stop) with one goroutine per connector that      *)
(* reports on a shared unbuffered channel.                                 *)
(***************************************************************************)
EXTENDS Naturals, Sequences, FiniteSets, TLC

\* Bounds of the model.
MaxAppConnectors == 2
MaxAdminConnectors == 1
MaxStops == 2
MaxPreset == 2
MaxAddedTasks == 2
MaxAdminStarts == 2

VARIABLES
    args,          \* bootstrap.Arguments
    commands,      \* bootstrap.commands, names in registration order
    pc,            \* position of the main goroutine
    ran,           \* indexes (in commands) of the commands whose Run was called
    printed,       \* lines written by printHelp
    runRet,        \* value returned by Run
    cmdRet,        \* value returned by the command's Run
    stepErr,       \* err of ServerCommand.Run
    configuration, \* connector counts of the parsed configuration
    serverBuilt,   \* the server value exists
    Connectors,    \* DefaultServer.Connectors
    regLog,        \* writes to the environment's registrars, in order
    conn,          \* state of each connector's goroutine
    result,        \* value returned by each connector's start()
    i,             \* loop counter of Start's receive loop
    err,           \* err received in Start's select
    delivered,     \* connectors in the order their result left errorChan
    startCalls,    \* number of calls of Server.Start
    startRet,      \* value returned by Server.Start
    stopCalls,     \* number of calls of Server.Stop, by caller
    closed,        \* connectors whose listener has been closed by Stop
    panicked,      \* a call of Stop has panicked
    stopAt,        \* position of the main goroutine at each outside call of Stop
    \* AdminEnvironment
    tasks,         \* AdminEnvironment.tasks
    contextPath,   \* ContextPath of the admin ServerHandler
    routes,        \* patterns registered in the admin ServeMux, with their handler
    healthChecks,  \* names registered in the health check registry
    loggers,       \* level of each named logger
    adminStarts,   \* number of times the builtin routes have been registered
    adminPanicked, \* a registration on the admin ServeMux has panicked
    request,       \* last request sent to the admin handler
    response,      \* status and effects, in order, of serving that request
    \* commonFactory
    RequestLog,    \* commonFactory.RequestLog.Value()
    FilterChain,   \* FilterChain of each handler
    chainBefore,   \* FilterChain of each handler when AddFilters was last called
    given,         \* handlers given to the last call of AddFilters
    addFiltersRet  \* value returned by the last call of AddFilters

lifecycleVars ==
    <<args, commands, pc, ran, printed, runRet, cmdRet, stepErr, configuration,
      serverBuilt, Connectors, regLog, conn, result, i, err, delivered,
      startCalls, startRet, stopCalls, closed, panicked, stopAt>>

adminVars == <<tasks, contextPath, routes, healthChecks, loggers, adminStarts,
               adminPanicked, request, response>>

filterVars == <<RequestLog, FilterChain, chainBefore, given, addFiltersRet>>

vars == <<lifecycleVars, adminVars, filterVars>>

serverVars == <<Connectors, conn, result, i, err, delivered, startCalls,
                startRet, stopCalls, closed, panicked, stopAt>>

----------------------------------------------------------------------------
\* Values

None == [kind |-> "none", id |-> 0]
Nil == [kind |-> "nil", id |-> 0]
ErrOf(c) == [kind |-> "connector", id |-> c]
ConfigErr == [kind |-> "configuration", id |-> 0]
BuildErr == [kind |-> "build", id |-> 0]
BundleErr == [kind |-> "bundle", id |-> 0]
ApplicationErr == [kind |-> "application", id |-> 0]
CommandErr == [kind |-> "command", id |-> 0]

ServerCommandName == "server"

ArgVectors == {<<>>, <<"server">>, <<"check">>, <<"bogus">>}
CommandLists == {<<"server">>, <<"check", "server">>, <<"server", "check", "server">>}

MaxConnectors == MaxAppConnectors + MaxAdminConnectors
ConnIds == 1..MaxConnectors

----------------------------------------------------------------------------
\* Helpers

\* Index of the first command whose Name() equals name, 0 when there is none.
LastMatch(cmds, name, k) ==
    LET matches == {j \in k..Len(cmds) : cmds[j] = name}
    IN  IF matches = {} THEN 0
        ELSE CHOOSE j \in matches : \A m \in matches : m <= j
RECURSIVE FirstMatch(_, _, _)
FirstMatch(cmds, name, k) ==
    IF k > Len(cmds) THEN 0
    ELSE IF cmds[k] = name THEN k
    ELSE FirstMatch(cmds, name, k + 1)

\* Run returns what the command's Run returned.
RunReturns(r) == r

\* newServerConnector: one connector bound to handler.
newServerConnector(handler) == [handler |-> handler]

\* AddConnectors: append one connector per configuration entry.
RECURSIVE AddConnectors(_, _, _)
AddConnectors(cs, handler, count) ==
    IF count = 0 THEN cs
    ELSE AddConnectors(Append(cs, newServerConnector(handler)), handler, count - 1)

\* Listeners closed once Stop has run: the body closes nothing.
StopClosed(cl, cn) == cl

\* Whether a call of Stop panics: the body dereferences nothing.
StopPanicsOnNilListener(cn) == \E c \in DOMAIN cn : cn[c] = "idle"
StopPanics(cn) == FALSE

\* Server.Stop called by caller ("start" or "external").
Stop(caller) ==
    /\ stopCalls' = [stopCalls EXCEPT ![caller] = @ + 1]
    /\ closed' = StopClosed(closed, conn)
    /\ panicked' = (panicked \/ StopPanics(conn))

----------------------------------------------------------------------------
\* No admin environment and no request.
NoRequest == [method |-> "", path |-> <<>>, logger |-> <<>>, level |-> "",
              checks |-> <<>>, order |-> <<>>]
NoResponse == [status |-> 0, effects |-> <<>>, by |-> [kind |-> "", id |-> ""]]

AdminIdle ==
    /\ tasks = <<>>
    /\ contextPath = ""
    /\ routes = <<>>
    /\ healthChecks = {}
    /\ loggers = <<>>
    /\ adminStarts = 0
    /\ adminPanicked = FALSE
    /\ request = NoRequest
    /\ response = NoResponse

\* No call of AddFilters.
FilterIdle ==
    /\ RequestLog = "nil"
    /\ FilterChain = <<>>
    /\ chainBefore = <<>>
    /\ given = <<>>
    /\ addFiltersRet = None

\* The command runtime is not running.
LifecycleIdle ==
    /\ args = <<>>
    /\ commands = <<>>
    /\ pc = "idle"
    /\ ran = <<>>
    /\ printed = <<>>
    /\ runRet = None
    /\ cmdRet = None
    /\ stepErr = None
    /\ configuration = [app |-> 0, admin |-> 0]
    /\ serverBuilt = FALSE
    /\ Connectors = <<>>
    /\ regLog = <<>>
    /\ conn = <<>>
    /\ result = <<>>
    /\ i = 0
    /\ err = None
    /\ delivered = <<>>
    /\ startCalls = 0
    /\ startRet = None
    /\ stopCalls = [start |-> 0, external |-> 0]
    /\ closed = {}
    /\ panicked = FALSE
    /\ stopAt = <<>>

Init ==
    /\ args \in ArgVectors
    /\ commands \in CommandLists
    /\ pc = "run"
    /\ ran = <<>>
    /\ printed = <<>>
    /\ runRet = None
    /\ cmdRet = None
    /\ stepErr = None
    /\ configuration = [app |-> 0, admin |-> 0]
    /\ serverBuilt = FALSE
    /\ Connectors = <<>>
    /\ regLog = <<>>
    /\ conn = <<>>
    /\ result = <<>>
    /\ i = 0
    /\ err = None
    /\ delivered = <<>>
    /\ startCalls = 0
    /\ startRet = None
    /\ stopCalls = [start |-> 0, external |-> 0]
    /\ closed = {}
    /\ panicked = FALSE
    /\ stopAt = <<>>
    /\ AdminIdle
    /\ FilterIdle

----------------------------------------------------------------------------
\* Run: resolve the command named by the first argument.

\* The first argument matches a command: that command's Run is called.
RunServerCommand ==
    /\ pc = "run"
    /\ Len(args) > 0
    /\ FirstMatch(commands, args[1], 1) # 0
    /\ commands[FirstMatch(commands, args[1], 1)] = ServerCommandName
    /\ ran' = Append(ran, FirstMatch(commands, args[1], 1))
    /\ pc' = "config"
    /\ UNCHANGED <<args, commands, printed, runRet, cmdRet, stepErr, configuration,
                   serverBuilt, regLog>>
    /\ UNCHANGED serverVars
    /\ UNCHANGED <<adminVars, filterVars>>

\* A matched command other than the server command: its result is returned.
RunOtherCommand ==
    /\ pc = "run"
    /\ Len(args) > 0
    /\ FirstMatch(commands, args[1], 1) # 0
    /\ commands[FirstMatch(commands, args[1], 1)] # ServerCommandName
    /\ ran' = Append(ran, FirstMatch(commands, args[1], 1))
    /\ \E r \in {Nil, CommandErr} : cmdRet' = r
    /\ runRet' = RunReturns(cmdRet')
    /\ pc' = "done"
    /\ UNCHANGED <<args, commands, printed, stepErr, configuration, serverBuilt,
                   regLog>>
    /\ UNCHANGED serverVars
    /\ UNCHANGED <<adminVars, filterVars>>

\* No argument or no matching command: printHelp, return nil.
printHelp ==
    /\ pc = "run"
    /\ \/ Len(args) = 0
       \/ /\ Len(args) > 0
          /\ FirstMatch(commands, args[1], 1) = 0
    /\ printed' = commands
    /\ runRet' = Nil
    /\ pc' = "done"
    /\ UNCHANGED <<args, commands, ran, cmdRet, stepErr, configuration,
                   serverBuilt, regLog>>
    /\ UNCHANGED serverVars
    /\ UNCHANGED <<adminVars, filterVars>>

----------------------------------------------------------------------------
\* ServerCommand.Run

\* An error of a step is returned by ServerCommand.Run.
ReturnStepErrDropped(e) == Nil
ReturnStepErr(e) == e

BuildConfiguration ==
    /\ pc = "config"
    /\ \/ /\ stepErr' = ConfigErr
          /\ cmdRet' = ReturnStepErr(ConfigErr)
          /\ runRet' = RunReturns(cmdRet')
          /\ pc' = "done"
          /\ UNCHANGED configuration
       \/ /\ \E a \in 0..MaxAppConnectors, b \in 0..MaxAdminConnectors :
                 configuration' = [app |-> a, admin |-> b]
          /\ stepErr' = Nil
          /\ pc' = "build"
          /\ UNCHANGED <<runRet, cmdRet>>
    /\ UNCHANGED <<args, commands, ran, printed, serverBuilt, regLog>>
    /\ UNCHANGED serverVars
    /\ UNCHANGED <<adminVars, filterVars>>

\* Registrar writes of BuildServer: Admin.Initialize registers the builtins.
BuildServerRegistersNothing(log) == log
BuildServerRegisters(log) == Append(log, "build")

BuildServer ==
    /\ pc = "build"
    /\ \/ /\ stepErr' = BuildErr
          /\ cmdRet' = ReturnStepErr(BuildErr)
          /\ runRet' = RunReturns(cmdRet')
          /\ pc' = "done"
          /\ UNCHANGED <<serverBuilt, Connectors, conn, result, regLog>>
       \/ /\ Connectors' = AddConnectors(
                               AddConnectors(<<>>, "application", configuration.app),
                               "admin", configuration.admin)
          /\ conn' = [c \in 1..(configuration.app + configuration.admin) |-> "idle"]
          /\ result' = [c \in 1..(configuration.app + configuration.admin) |-> None]
          /\ serverBuilt' = TRUE
          /\ regLog' = BuildServerRegisters(regLog)
          /\ stepErr' = Nil
          /\ pc' = "bundles"
          /\ UNCHANGED <<runRet, cmdRet>>
    /\ UNCHANGED <<args, commands, ran, printed, configuration, i, err, delivered,
                   startCalls, startRet, stopCalls, closed, panicked, stopAt>>
    /\ UNCHANGED <<adminVars, filterVars>>

\* bootstrap.run: all bundles run against configuration and environment.
RunBundles ==
    /\ pc = "bundles"
    /\ \/ /\ stepErr' = BundleErr
          /\ cmdRet' = ReturnStepErr(BundleErr)
          /\ runRet' = RunReturns(cmdRet')
          /\ pc' = "done"
          /\ UNCHANGED regLog
       \/ /\ regLog' = Append(regLog, "bundles")
          /\ stepErr' = Nil
          /\ pc' = "application"
          /\ UNCHANGED <<runRet, cmdRet>>
    /\ UNCHANGED <<args, commands, ran, printed, configuration, serverBuilt>>
    /\ UNCHANGED serverVars
    /\ UNCHANGED <<adminVars, filterVars>>

\* bootstrap.Application.Run
RunApplication ==
    /\ pc = "application"
    /\ \/ /\ stepErr' = ApplicationErr
          /\ cmdRet' = ReturnStepErr(ApplicationErr)
          /\ runRet' = RunReturns(cmdRet')
          /\ pc' = "done"
          /\ UNCHANGED regLog
       \/ /\ regLog' = Append(regLog, "application")
          /\ stepErr' = Nil
          /\ pc' = "start"
          /\ UNCHANGED <<runRet, cmdRet>>
    /\ UNCHANGED <<args, commands, ran, printed, configuration, serverBuilt>>
    /\ UNCHANGED serverVars
    /\ UNCHANGED <<adminVars, filterVars>>

----------------------------------------------------------------------------
\* DefaultServer.Start

\* Number of results the receive loop collects.
LoopCountShort(cs) == IF Len(cs) > 0 THEN Len(cs) - 1 ELSE 0
LoopCountAtLeastOne(cs) == IF Len(cs) = 0 THEN 1 ELSE Len(cs)
LoopCount(cs) == Len(cs)

\* Start is entered: one goroutine per connector is launched, each running
\* c.start(); the receive loop starts at len(server.Connectors).
StartLaunch ==
    /\ pc = "start"
    /\ startCalls' = startCalls + 1
    /\ conn' = [c \in DOMAIN conn |-> "running"]
    /\ i' = LoopCount(Connectors)
    /\ pc' = "collect"
    /\ UNCHANGED <<args, commands, ran, printed, runRet, cmdRet, stepErr, configuration,
                   serverBuilt, Connectors, regLog, result, err, delivered,
                   startRet, stopCalls, closed, panicked, stopAt>>
    /\ UNCHANGED <<adminVars, filterVars>>

\* c.start() returns r in connector c's goroutine, which then blocks on the
\* send to errorChan.
ConnectorReturn(c) ==
    /\ c \in DOMAIN conn
    /\ conn[c] = "running"
    /\ \E r \in {Nil, ErrOf(c)} : result' = [result EXCEPT ![c] = r]
    /\ conn' = [conn EXCEPT ![c] = "sending"]
    /\ UNCHANGED <<args, commands, pc, ran, printed, runRet, cmdRet, stepErr,
                   configuration, serverBuilt, Connectors, regLog, i, err,
                   delivered, startCalls, startRet, stopCalls, closed, panicked,
                   stopAt>>
    /\ UNCHANGED <<adminVars, filterVars>>

\* The value received from errorChan when connector c's send is taken.
ReceivedFirstRegistered(res, c) ==
    LET failedSet == {k \in DOMAIN res : res[k] \notin {None, Nil}}
    IN  IF failedSet = {} THEN res[c]
        ELSE res[CHOOSE k \in failedSet : \A j \in failedSet : k <= j]
Received(res, c) == res[c]

\* Whether a received value takes the failure path of the loop.
IsFatalNever(e) == FALSE
IsFatal(e) == e # Nil

\* One iteration of the receive loop: errorChan is unbuffered, so the send
\* of connector c and the receive of Start happen together.
StartCollect(c) ==
    /\ pc = "collect"
    /\ i > 0
    /\ c \in DOMAIN conn
    /\ conn[c] = "sending"
    /\ conn' = [conn EXCEPT ![c] = "done"]
    /\ delivered' = Append(delivered, c)
    /\ IF IsFatal(Received(result, c))
       THEN /\ err' = Received(result, c)
            /\ pc' = "stop"
            /\ UNCHANGED i
       ELSE /\ i' = i - 1
            /\ UNCHANGED <<err, pc>>
    /\ UNCHANGED <<args, commands, ran, printed, runRet, cmdRet, stepErr, configuration,
                   serverBuilt, Connectors, regLog, result, startCalls,
                   startRet, stopCalls, closed, panicked, stopAt>>
    /\ UNCHANGED <<adminVars, filterVars>>

\* Value ServerCommand.Run returns for the value Start returned.
ReturnStartIgnored(v) == Nil
ReturnStart(v) == v

\* Failure path: server.Stop() is called, then err is returned.
StartFail ==
    /\ pc = "stop"
    /\ Stop("start")
    /\ startRet' = err
    /\ cmdRet' = ReturnStart(err)
    /\ runRet' = RunReturns(cmdRet')
    /\ pc' = "done"
    /\ UNCHANGED <<args, commands, ran, printed, stepErr, configuration,
                   serverBuilt, Connectors, regLog, conn, result, i, err,
                   delivered, startCalls, stopAt>>
    /\ UNCHANGED <<adminVars, filterVars>>

\* The loop has received len(server.Connectors) results: return nil.
StartReturnNil ==
    /\ pc = "collect"
    /\ i = 0
    /\ startRet' = Nil
    /\ cmdRet' = ReturnStart(Nil)
    /\ runRet' = RunReturns(cmdRet')
    /\ pc' = "done"
    /\ UNCHANGED <<args, commands, ran, printed, stepErr, configuration,
                   serverBuilt, Connectors, regLog, conn, result, i, err,
                   delivered, startCalls, stopCalls, closed, panicked, stopAt>>
    /\ UNCHANGED <<adminVars, filterVars>>

\* Server.Stop called from outside Start, at any time the server exists.
ExternalStop ==
    /\ serverBuilt
    /\ stopCalls.external < MaxStops
    /\ Stop("external")
    /\ stopAt' = Append(stopAt, pc)
    /\ UNCHANGED <<args, commands, pc, ran, printed, runRet, cmdRet, stepErr,
                   configuration, serverBuilt, Connectors, regLog, conn, result,
                   i, err, delivered, startCalls, startRet>>
    /\ UNCHANGED <<adminVars, filterVars>>

----------------------------------------------------------------------------
MainStep ==
    \/ RunServerCommand
    \/ RunOtherCommand
    \/ printHelp
    \/ BuildConfiguration
    \/ BuildServer
    \/ RunBundles
    \/ RunApplication
    \/ StartLaunch
    \/ StartFail
    \/ StartReturnNil

Next ==
    \/ MainStep
    \/ \E c \in ConnIds : StartCollect(c)
    \/ \E c \in ConnIds : ConnectorReturn(c)
    \/ ExternalStop

Spec == Init /\ [][Next]_vars

\* The Go scheduler runs every runnable goroutine: the main goroutine takes
\* its next step, and a pending hand-over on errorChan completes.  A
\* connector may serve forever and nobody has to call Stop.
FairSpec ==
    /\ Spec
    /\ WF_vars(MainStep)
    /\ \A c \in ConnIds : WF_vars(StartCollect(c))

----------------------------------------------------------------------------
\* commonFactory.AddFilters

Handlers == {"h1", "h2"}
PresetFilters == {"f1", "f2"}
RequestLogValues == {"nil", "factory", "failingFactory", "other"}

UnsupportedRequestLogErr == [kind |-> "unsupported request log", id |-> 0]
RequestLogBuildErr == [kind |-> "request log build", id |-> 0]

\* Sequences over S of length at most n.
SeqsUpTo(S, n) == UNION {[1..k -> S] : k \in 0..n}

\* getRequestLog: the request log filter for the configured value, or an
\* error.  A RequestLogFactory's Build yields its filter or its error.
getRequestLogNoError(value) ==
    IF value \in {"nil", "other"} THEN [filter |-> "noRequestLog", err |-> Nil]
    ELSE IF value = "factory" THEN [filter |-> "requestLog", err |-> Nil]
    ELSE [filter |-> "none", err |-> RequestLogBuildErr]
getRequestLog(value) ==
    IF value = "nil" THEN [filter |-> "noRequestLog", err |-> Nil]
    ELSE IF value = "factory" THEN [filter |-> "requestLog", err |-> Nil]
    ELSE IF value = "failingFactory" THEN [filter |-> "none", err |-> RequestLogBuildErr]
    ELSE [filter |-> "none", err |-> UnsupportedRequestLogErr]

\* The two Add calls on one handler's FilterChain.
AddPairSwapped(chain, requestLogFilter, recoveryFilter) ==
    Append(Append(chain, recoveryFilter), requestLogFilter)
AddPair(chain, requestLogFilter, recoveryFilter) ==
    Append(Append(chain, requestLogFilter), recoveryFilter)

\* The loop over the given handlers, from the k-th on.
RECURSIVE AddToHandlers(_, _, _, _, _)
AddToHandlers(chains, hs, k, requestLogFilter, recoveryFilter) ==
    IF k > Len(hs) THEN chains
    ELSE AddToHandlers(
             [chains EXCEPT ![hs[k]] = AddPair(@, requestLogFilter, recoveryFilter)],
             hs, k + 1, requestLogFilter, recoveryFilter)

FilterInit ==
    /\ LifecycleIdle
    /\ AdminIdle
    /\ RequestLog \in RequestLogValues
    /\ FilterChain \in [Handlers -> SeqsUpTo(PresetFilters, MaxPreset)]
    /\ chainBefore = <<>>
    /\ given = <<>>
    /\ addFiltersRet = None

\* AddFilters(env, hs...)
AddFilters(hs) ==
    /\ \A h \in Handlers : Len(FilterChain[h]) <= MaxPreset
    /\ given' = hs
    /\ chainBefore' = FilterChain
    /\ IF getRequestLog(RequestLog).err # Nil
       THEN /\ addFiltersRet' = getRequestLog(RequestLog).err
            /\ UNCHANGED FilterChain
       ELSE /\ FilterChain' = AddToHandlers(FilterChain, hs, 1,
                                 getRequestLog(RequestLog).filter, "recovery")
            /\ addFiltersRet' = Nil
    /\ UNCHANGED RequestLog
    /\ UNCHANGED <<lifecycleVars, adminVars>>

FilterNext == \E hs \in SeqsUpTo(Handlers, 2) : AddFilters(hs)

FilterSpec == FilterInit /\ [][FilterNext]_vars

----------------------------------------------------------------------------
\* AdminEnvironment

\* A path is the sequence of its segments: "/ping" is <<"ping">>, "/" is
\* <<"">> and "/tasks/gc" is <<"tasks", "gc">>; a context path "" is <<>>.
\* Concatenation of strings is concatenation of these sequences.
pingUri == <<"ping">>
runtimeUri == <<"runtime">>
healthCheckUri == <<"healthcheck">>
tasksUri == <<"tasks">>
rootUri == <<"">>

ContextPaths == {<<>>, <<"admin">>}

\* The tasks: the two default ones and those an application may add.  Two
\* distinct tasks may report the same Name().
GCTask == [name |-> "gc", id |-> "GCTask"]
LogTask == [name |-> "log", id |-> "LogTask"]
CustomTasks == {[name |-> "x", id |-> "t1"],
                [name |-> "x", id |-> "t2"],
                [name |-> "y", id |-> "t3"],
                [name |-> "gc", id |-> "t4"]}

CheckNames == {"db", "cache"}
LoggerNames == {"a", "b"}

\* Handlers of the builtin routes and of a task.
Builtin(kind) == [kind |-> kind, id |-> kind]
TaskHandler(task) == [kind |-> "task", id |-> task.id]
NotFoundHandler == [kind |-> "notfound", id |-> "notfound"]

\* AddTask: append to the task list.
AddTaskTo(ts, task) == Append(ts, task)

\* NewAdminEnvironment: the default tasks are added to an empty list.
NewAdminEnvironmentTasks == AddTaskTo(AddTaskTo(<<>>, GCTask), LogTask)

\* Pattern under which a task is registered.
TaskPattern(task) == tasksUri \o <<task.name>>

\* The Handle calls of the registration of the builtin routes, in order.
RECURSIVE TaskRegistrations(_, _)
TaskRegistrations(ts, k) ==
    IF k > Len(ts) THEN <<>>
    ELSE <<[method |-> "POST", pattern |-> TaskPattern(ts[k]),
            handler |-> TaskHandler(ts[k])]>>
         \o TaskRegistrations(ts, k + 1)

Registrations(ts) ==
    <<[method |-> "GET", pattern |-> pingUri, handler |-> Builtin("ping")],
      [method |-> "GET", pattern |-> runtimeUri, handler |-> Builtin("runtime")],
      [method |-> "GET", pattern |-> healthCheckUri, handler |-> Builtin("healthcheck")],
      [method |-> "GET", pattern |-> rootUri, handler |-> Builtin("menu")]>>
    \o TaskRegistrations(ts, 1)

\* ServeMux.Handle panics when the pattern is already registered.
MuxRejects(rts, path) == path \in DOMAIN rts

\* DefaultServerHandler.Handle: register handler under ContextPath + pattern.
Handle(rts, prefix, reg) ==
    ((prefix \o reg.pattern) :> [method |-> reg.method, handler |-> reg.handler])
        @@ rts

\* The Handle calls regs[k..] applied in order; a panic ends the sequence.
RECURSIVE HandleAll(_, _, _, _)
HandleAll(rts, prefix, regs, k) ==
    IF k > Len(regs) THEN [routes |-> rts, panicked |-> FALSE]
    ELSE IF MuxRejects(rts, prefix \o regs[k].pattern)
         THEN [routes |-> rts, panicked |-> TRUE]
         ELSE HandleAll(Handle(rts, prefix, regs[k]), prefix, regs, k + 1)

AdminInit ==
    /\ LifecycleIdle
    /\ FilterIdle
    /\ tasks = NewAdminEnvironmentTasks
    /\ contextPath \in ContextPaths
    /\ routes = <<>>
    /\ healthChecks \in SUBSET CheckNames
    /\ loggers = [n \in LoggerNames |-> "DEBUG"]
    /\ adminStarts = 0
    /\ adminPanicked = FALSE
    /\ request = NoRequest
    /\ response = NoResponse

\* AdminEnvironment.AddTask, called before the admin environment starts.
AddTask(task) ==
    /\ ~adminPanicked
    /\ adminStarts = 0
    /\ Len(tasks) < Len(NewAdminEnvironmentTasks) + MaxAddedTasks
    /\ tasks' = AddTaskTo(tasks, task)
    /\ UNCHANGED <<contextPath, routes, healthChecks, loggers, adminStarts,
                   adminPanicked, request, response>>
    /\ UNCHANGED <<lifecycleVars, filterVars>>

\* onStarting / addHandlers: register the builtin routes and the tasks.
onStarting ==
    /\ ~adminPanicked
    /\ adminStarts < MaxAdminStarts
    /\ adminStarts' = adminStarts + 1
    /\ routes' = HandleAll(routes, contextPath, Registrations(tasks), 1).routes
    /\ adminPanicked' = HandleAll(routes, contextPath, Registrations(tasks), 1).panicked
    /\ UNCHANGED <<tasks, contextPath, healthChecks, loggers, request, response>>
    /\ UNCHANGED <<lifecycleVars, filterVars>>

----------------------------------------------------------------------------
\* Requests to the admin handler

StatusOK == 200
StatusBadRequest == 400
StatusNotFound == 404
StatusInternalServerError == 500
StatusNotImplemented == 501

\* What serving a request does, in order: writes to the response and calls.
Write(text) == [op |-> "write", a |-> text, b |-> ""]
Effect(op, a, b) == [op |-> op, a |-> a, b |-> b]

\* ServeMux: a pattern ending in "/" matches every path below it, any other
\* pattern matches only itself; the longest matching pattern is taken.
IsSubtree(pattern) == pattern[Len(pattern)] = ""
Below(path, pattern) ==
    /\ IsSubtree(pattern)
    /\ Len(path) >= Len(pattern)
    /\ SubSeq(path, 1, Len(pattern) - 1) = SubSeq(pattern, 1, Len(pattern) - 1)

Dispatch(rts, path) ==
    IF path \in DOMAIN rts THEN rts[path].handler
    ELSE LET matching == {q \in DOMAIN rts : Below(path, q)}
         IN  IF matching = {} THEN NotFoundHandler
             ELSE rts[CHOOSE q \in matching :
                          \A o \in matching : Len(o) <= Len(q)].handler

\* http.NotFound
NotFound == [status |-> StatusNotFound, effects |-> <<Write("404 page not found")>>]

\* DefaultAdminHandler.ServeHTTP: the menu, at the root of the admin page only.
AdminMenuAnyPath(prefix, path) ==
    [status |-> StatusOK, effects |-> <<Write("Operational Menu")>>]
AdminMenu(prefix, path) ==
    IF path # prefix \o rootUri THEN NotFound
    ELSE [status |-> StatusOK, effects |-> <<Write("Operational Menu")>>]

\* handleAdminPing, handleAdminRuntime
handleAdminPing == [status |-> StatusOK, effects |-> <<Write("pong")>>]
handleAdminRuntime == [status |-> StatusOK, effects |-> <<Write("runtime statistics")>>]

\* Results a health check may report, and %t of its Healthy flag.
HealthResults ==
    {[Healthy |-> TRUE, Message |-> "", Cause |-> "nil"],
     [Healthy |-> TRUE, Message |-> "msg", Cause |-> "nil"],
     [Healthy |-> FALSE, Message |-> "", Cause |-> "nil"],
     [Healthy |-> FALSE, Message |-> "", Cause |-> "cause"],
     [Healthy |-> FALSE, Message |-> "msg", Cause |-> "cause"]}
FormatBool(v) == IF v THEN "true" ELSE "false"

\* isAllHealthy
isAnyHealthy(results) == \E n \in DOMAIN results : results[n].Healthy
isAllHealthy(results) == \A n \in DOMAIN results : results[n].Healthy

\* The lines written for one check.
HealthLinesOf(name, res) ==
    <<Effect("healthy", name, FormatBool(res.Healthy))>>
    \o (IF res.Message # "" THEN <<Effect("message", name, res.Message)>> ELSE <<>>)
    \o (IF res.Cause # "nil" THEN <<Effect("cause", name, res.Cause)>> ELSE <<>>)

\* The range loop over the results, in the iteration order of the map.
RECURSIVE HealthLines(_, _, _)
HealthLines(results, order, k) ==
    IF k > Len(order) THEN <<>>
    ELSE HealthLinesOf(order[k], results[order[k]]) \o HealthLines(results, order, k + 1)

\* HealthCheckHandler.ServeHTTP
HealthCheck(results, order) ==
    IF Cardinality(DOMAIN results) = 0
    THEN [status |-> StatusNotImplemented,
          effects |-> <<Write("No health checks registered.")>>]
    ELSE [status |-> IF ~isAllHealthy(results) THEN StatusInternalServerError
                     ELSE StatusOK,
          effects |-> HealthLines(results, order, 1)]

\* GCTask.ServeHTTP
GCBeforeWrite == <<Effect("gc", "", ""), Write("Running GC..."), Write("Done!")>>
GCEffects == <<Write("Running GC..."), Effect("gc", "", ""), Write("Done!")>>

\* gol.LevelString of the levels parseLogLevel tries, in its order.
logLevels == <<"ALL", "TRACE", "DEBUG", "INFO", "WARN", "ERROR", "OFF">>
LevelInputs == {"", "info", "bogus"}

\* Upper case of the strings that occur as levels.
Upper(str) ==
    CASE str = "info" -> "INFO"
      [] str = "bogus" -> "BOGUS"
      [] OTHER -> str

\* strings.EqualFold
EqualExact(x, y) == x = y
EqualFold(x, y) == Upper(x) = Upper(y)

\* parseLogLevel: the first level whose name folds to the given string.
RECURSIVE parseLogLevel(_, _)
parseLogLevel(level, k) ==
    IF k > Len(logLevels) THEN [level |-> "OFF", ok |-> FALSE]
    ELSE IF EqualFold(level, logLevels[k]) THEN [level |-> logLevels[k], ok |-> TRUE]
    ELSE parseLogLevel(level, k + 1)

\* The loop that sets the level of each named logger.
RECURSIVE SetLevels(_, _, _, _)
SetLevels(lg, names, level, k) ==
    IF k > Len(names) THEN lg
    ELSE SetLevels([lg EXCEPT ![names[k]] = level], names, level, k + 1)

RECURSIVE SetLevelEffects(_, _, _)
SetLevelEffects(names, level, k) ==
    IF k > Len(names) THEN <<>>
    ELSE <<Effect("setLevel", names[k], level)>> \o SetLevelEffects(names, level, k + 1)

\* The loop that prints the level of each named logger.
RECURSIVE PrintLevels(_, _, _)
PrintLevels(lg, names, k) ==
    IF k > Len(names) THEN <<>>
    ELSE <<Effect("level", names[k], lg[names[k]])>> \o PrintLevels(lg, names, k + 1)

\* LogTask.ServeHTTP
LogTaskServe(req, lg) ==
    IF Len(req.logger) = 0
    THEN [status |-> StatusOK, effects |-> <<>>, loggers |-> lg]
    ELSE IF req.level # "" /\ ~parseLogLevel(req.level, 1).ok
    THEN [status |-> StatusBadRequest,
          effects |-> <<Write("Level is not supported")>>, loggers |-> lg]
    ELSE IF req.level # ""
    THEN LET level == parseLogLevel(req.level, 1).level
             set == SetLevels(lg, req.logger, level, 1)
         IN  [status |-> StatusOK,
              effects |-> SetLevelEffects(req.logger, level, 1)
                              \o PrintLevels(set, req.logger, 1),
              loggers |-> set]
    ELSE [status |-> StatusOK, effects |-> PrintLevels(lg, req.logger, 1),
          loggers |-> lg]

\* A task added by the application: its action runs.
CustomTaskServe(id) == [status |-> StatusOK, effects |-> <<Effect("task", id, "")>>]

\* The handler the mux selected serves the request.
Serve(handler, req, prefix, lg) ==
    LET keep(r) == [status |-> r.status, effects |-> r.effects, loggers |-> lg]
    IN  CASE handler.kind = "notfound" -> keep(NotFound)
          [] handler.kind = "menu" -> keep(AdminMenu(prefix, req.path))
          [] handler.kind = "ping" -> keep(handleAdminPing)
          [] handler.kind = "runtime" -> keep(handleAdminRuntime)
          [] handler.kind = "healthcheck" -> keep(HealthCheck(req.checks, req.order))
          [] handler.kind = "task" /\ handler.id = GCTask.id ->
                 keep([status |-> StatusOK, effects |-> GCEffects])
          [] handler.kind = "task" /\ handler.id = LogTask.id -> LogTaskServe(req, lg)
          [] OTHER -> keep(CustomTaskServe(handler.id))

\* Orders in which a map over names may be iterated.
Orders(names) ==
    {o \in [1..Cardinality(names) -> names] :
        \A x, y \in 1..Cardinality(names) : o[x] = o[y] => x = y}

RequestPaths(prefix) ==
    {prefix \o x : x \in {pingUri, runtimeUri, healthCheckUri, rootUri,
                          <<"tasks", "gc">>, <<"tasks", "log">>, <<"tasks", "x">>,
                          <<"tasks", "y">>, <<"tasks", "nope">>, <<"nope">>}}
    \cup {<<"other">>}

\* The requests: a query only matters to the log task, the outcome of the
\* health checks only to /healthcheck, where RunHealthChecks yields one
\* result for every registered check.
Requests(prefix, checks) ==
    {[method |-> IF Below(q, prefix \o tasksUri \o rootUri) THEN "POST" ELSE "GET",
      path |-> q, logger |-> <<>>, level |-> "",
      checks |-> <<>>, order |-> <<>>] :
        q \in RequestPaths(prefix) \ {prefix \o healthCheckUri}}
    \cup {[method |-> "POST", path |-> prefix \o <<"tasks", "log">>,
           logger |-> l, level |-> v, checks |-> <<>>, order |-> <<>>] :
        l \in {<<"a">>, <<"a", "b">>, <<"b", "b">>}, v \in LevelInputs}
    \cup {[method |-> "GET", path |-> prefix \o healthCheckUri,
           logger |-> <<>>, level |-> "", checks |-> c, order |-> o] :
        c \in [checks -> HealthResults], o \in Orders(checks)}

\* DefaultServerHandler.ServeHTTP: the mux dispatches and the handler serves.
ServeHTTP(req) ==
    /\ ~adminPanicked
    /\ adminStarts >= 1
    /\ request' = req
    /\ LET handler == Dispatch(routes, req.path)
           served == Serve(handler, req, contextPath, loggers)
       IN  /\ response' = [status |-> served.status, effects |-> served.effects,
                           by |-> handler]
           /\ loggers' = served.loggers
    /\ UNCHANGED <<tasks, contextPath, routes, healthChecks, adminStarts,
                   adminPanicked>>
    /\ UNCHANGED <<lifecycleVars, filterVars>>

AdminNext ==
    \/ \E task \in CustomTasks : AddTask(task)
    \/ onStarting
    \/ \E req \in Requests(contextPath, healthChecks) : ServeHTTP(req)

AdminSpec == AdminInit /\ [][AdminNext]_vars

----------------------------------------------------------------------------
\* Properties

ConnectorCount == Len(Connectors)
StartReturned == startCalls > 0 /\ startRet # None
RegistrationOrder == <<"build", "bundles", "application">>

\* Connector k is the only one whose start() has returned, it returned its
\* error, and every other connector is still serving.
OnlyFailure(k) ==
    /\ k \in DOMAIN conn
    /\ result[k] = ErrOf(k)
    /\ \A c \in DOMAIN conn \ {k} : conn[c] = "running"

\* C1: when exactly one connector k has failed and all others keep serving,
\* Start returns exactly the error of k and has called Stop exactly once.
C1_SingleFailureReturned ==
    \A k \in ConnIds :
        (StartReturned /\ OnlyFailure(k)) =>
            /\ startRet = ErrOf(k)
            /\ stopCalls.start = 1

C1_Witness ==
    /\ StartReturned
    /\ ConnectorCount >= 2
    /\ OnlyFailure(2)
    /\ startRet = ErrOf(2)
    /\ stopCalls.start = 1

\* C2: every connector whose start() has returned and which is delivering
\* its result on errorChan eventually has that result received.
C2_EveryResultReceived ==
    \A c \in ConnIds :
        (c \in DOMAIN conn /\ conn[c] = "sending")
            ~> (c \in DOMAIN conn /\ conn[c] = "done")

\* C3: once Stop is called from outside while Start is blocked with every
\* connector serving, Start eventually returns, and it returns nil (unless
\* a connector fails with an error of its own in the meantime).
C3_StopUnblocksStart ==
    ( /\ pc = "collect"
      /\ ConnectorCount >= 1
      /\ \A c \in DOMAIN conn : conn[c] = "running"
      /\ Len(stopAt) > 0
      /\ stopAt[Len(stopAt)] = "collect" )
        ~> \/ StartReturned /\ startRet = Nil
           \/ \E c \in DOMAIN conn : result[c] = ErrOf(c)

\* C4: after any call of Stop has returned, the listener of every connector
\* of the server has been closed.
C4_StopClosesEveryConnector ==
    (stopCalls.start + stopCalls.external > 0) =>
        \A c \in DOMAIN conn : c \in closed

\* C5: when every connector's start() has returned nil, Start returns nil,
\* has received exactly len(Connectors) results and has not called Stop.
C5_AllNilReturnsNil ==
    (StartReturned /\ \A c \in DOMAIN conn : result[c] = Nil) =>
        /\ startRet = Nil
        /\ Len(delivered) = ConnectorCount
        /\ stopCalls.start = 0

C5_Witness ==
    /\ StartReturned
    /\ ConnectorCount >= 2
    /\ \A c \in DOMAIN conn : result[c] = Nil
    /\ startRet = Nil
    /\ Len(delivered) = ConnectorCount

\* C6: a non-nil value returned by Start is the error of the connector whose
\* failure was received first from errorChan (everything received before it
\* was nil, whatever the registration order), and once that error has been
\* received Start can return whatever the other connectors are doing.
C6_FirstDeliveredErrorWins ==
    /\ (StartReturned /\ startRet # Nil) =>
          /\ Len(delivered) >= 1
          /\ startRet = ErrOf(delivered[Len(delivered)])
          /\ result[delivered[Len(delivered)]] = startRet
          /\ \A j \in 1..(Len(delivered) - 1) : result[delivered[j]] = Nil
    /\ (pc = "stop") =>
          /\ ENABLED StartFail
          /\ err = ErrOf(delivered[Len(delivered)])

C6_Witness ==
    /\ StartReturned
    /\ ConnectorCount >= 3
    /\ startRet = ErrOf(2)
    /\ conn[1] = "sending"
    /\ result[1] = ErrOf(1)
    /\ conn[3] = "running"

\* A step that is a call of Stop.
StopStep == stopCalls' # stopCalls

\* A connector whose listener is already closed: its start() has returned
\* or Stop has closed it.
AlreadyClosed(c) == c \in closed \/ conn[c] \in {"sending", "done"}

\* C7: no call of Stop panics, whether it comes before Start, twice, or
\* during Start's failure path, and a call of Stop changes nothing about a
\* connector that is already closed.
C7_StopIdempotentSafe ==
    [][StopStep =>
          /\ ~panicked'
          /\ closed \subseteq closed'
          /\ \A c \in DOMAIN conn :
                AlreadyClosed(c) =>
                    /\ conn'[c] = conn[c]
                    /\ result'[c] = result[c]
                    /\ (c \in closed') = (c \in closed)]_vars

C7_Witness ==
    /\ stopCalls.external = 2
    /\ stopCalls.start = 1
    /\ stopAt = <<"bundles", "stop">>
    /\ \E c \in DOMAIN conn : conn[c] = "done"
    /\ ~panicked

\* C8: an error of configuration parsing, server build, bundle execution or
\* application setup is the value Run returns, no later step has run and
\* Start has not been called.
C8_StepErrorAborts ==
    (stepErr \notin {None, Nil}) =>
        /\ pc = "done"
        /\ runRet = stepErr
        /\ startCalls = 0
        /\ \A c \in DOMAIN conn : conn[c] = "idle"
        /\ (stepErr = ConfigErr => (regLog = <<>> /\ ~serverBuilt))
        /\ (stepErr = BuildErr => (regLog = <<>> /\ ~serverBuilt))
        /\ (stepErr = BundleErr => regLog = <<"build">>)
        /\ (stepErr = ApplicationErr => regLog = <<"build", "bundles">>)

C8_Witness ==
    /\ stepErr = ApplicationErr
    /\ runRet = ApplicationErr
    /\ ConnectorCount >= 1
    /\ pc = "done"

\* C9: the registrar writes happen in the order server build, bundles,
\* application setup, all of them before Start begins, and none after.
C9_RegistrationBeforeStart ==
    /\ Len(regLog) <= Len(RegistrationOrder)
    /\ regLog = SubSeq(RegistrationOrder, 1, Len(regLog))
    /\ (startCalls > 0 => regLog = RegistrationOrder)

C9_Witness ==
    /\ startCalls = 1
    /\ pc = "done"
    /\ regLog = RegistrationOrder
    /\ ConnectorCount >= 1

\* C10: when every step before it succeeds, Start is called exactly once and
\* Run returns exactly the value Start returned.
C10_RunReturnsStartResult ==
    /\ startCalls <= 1
    /\ (pc \in {"collect", "stop"} => startCalls = 1)
    /\ (pc = "done" /\ ran # <<>> /\ commands[ran[1]] = ServerCommandName
            /\ stepErr = Nil) =>
          /\ startCalls = 1
          /\ startRet # None
          /\ runRet = startRet

C10_Witness ==
    /\ pc = "done"
    /\ stepErr = Nil
    /\ startCalls = 1
    /\ startRet = ErrOf(1)
    /\ runRet = ErrOf(1)

\* The first argument names no registered command.
NoMatch ==
    \/ Len(args) = 0
    \/ \A k \in 1..Len(commands) : commands[k] # args[1]

\* C11: with no argument or a first argument that names no registered
\* command, Run runs no command, prints the help listing of every command
\* and returns nil; otherwise it runs exactly the first command of that
\* name, once, prints no help and returns that command's result.
C11_CommandResolution ==
    /\ Len(ran) <= 1
    /\ (pc = "done") =>
          IF NoMatch
          THEN /\ ran = <<>>
               /\ printed = commands
               /\ cmdRet = None
               /\ runRet = Nil
          ELSE /\ Len(ran) = 1
               /\ commands[ran[1]] = args[1]
               /\ \A k \in 1..(ran[1] - 1) : commands[k] # args[1]
               /\ printed = <<>>
               /\ cmdRet # None
               /\ runRet = cmdRet

C11_Witness ==
    /\ pc = "done"
    /\ commands = <<"server", "check", "server">>
    /\ args = <<"server">>
    /\ ran = <<1>>
    /\ runRet = ErrOf(1)

\* C20: Start on a server without connectors launches no goroutine,
\* receives nothing from errorChan, does not call Stop, can return at once
\* and returns nil.
C20_ZeroConnectors ==
    (startCalls > 0 /\ ConnectorCount = 0) =>
        /\ \A c \in DOMAIN conn : conn[c] = "idle"
        /\ delivered = <<>>
        /\ stopCalls.start = 0
        /\ pc \in {"collect", "done"}
        /\ (pc = "collect" => (i = 0 /\ ENABLED StartReturnNil))
        /\ (pc = "done" => (startRet = Nil /\ runRet = Nil))

C20_Witness ==
    /\ StartReturned
    /\ ConnectorCount = 0
    /\ startRet = Nil
    /\ delivered = <<>>
    /\ stopCalls.external = 1

Has(e) == \E k \in 1..Len(response.effects) : response.effects[k] = e

\* Number of lines the health check of one result writes.
LinesFor(res) ==
    1 + (IF res.Message # "" THEN 1 ELSE 0) + (IF res.Cause # "nil" THEN 1 ELSE 0)

RECURSIVE LinesTotal(_, _)
LinesTotal(results, names) ==
    IF names = {} THEN 0
    ELSE LET n == CHOOSE x \in names : TRUE
         IN  LinesFor(results[n]) + LinesTotal(results, names \ {n})

\* C13: /healthcheck answers 501 without any check, 500 when some check is
\* unhealthy and 200 when all are healthy; with checks, the body holds for
\* every check its name and healthy flag, its message exactly when that is
\* not empty, its cause exactly when there is one, and nothing else.
C13_HealthCheckStatus ==
    (response.by = Builtin("healthcheck")) =>
        LET results == request.checks
            names == DOMAIN results
        IN  /\ names = healthChecks
            /\ (names = {}) => response.status = StatusNotImplemented
            /\ (names # {} /\ \E n \in names : ~results[n].Healthy)
                   => response.status = StatusInternalServerError
            /\ (names # {} /\ \A n \in names : results[n].Healthy)
                   => response.status = StatusOK
            /\ (names # {}) =>
                   /\ \A n \in names :
                         /\ Has(Effect("healthy", n,
                                       IF results[n].Healthy THEN "true" ELSE "false"))
                         /\ Has(Effect("message", n, results[n].Message))
                                <=> (results[n].Message # "")
                         /\ Has(Effect("cause", n, results[n].Cause))
                                <=> (results[n].Cause # "nil")
                   /\ Len(response.effects) = LinesTotal(results, names)

C13_Witness ==
    /\ response.by = Builtin("healthcheck")
    /\ response.status = StatusInternalServerError
    /\ healthChecks = {"db", "cache"}
    /\ request.checks["db"] = [Healthy |-> FALSE, Message |-> "msg", Cause |-> "cause"]
    /\ request.checks["cache"] = [Healthy |-> TRUE, Message |-> "", Cause |-> "nil"]
    /\ Len(response.effects) = 4

\* C14: once the builtin routes have been registered, every builtin pattern
\* is routed to its handler, and registering again leaves the routes as
\* they are and does not panic.
C14_RegistrationIdempotent ==
    /\ [](adminStarts >= 1 /\ ~adminPanicked =>
            \A b \in {<<pingUri, "ping">>, <<runtimeUri, "runtime">>,
                      <<healthCheckUri, "healthcheck">>, <<rootUri, "menu">>} :
                /\ (contextPath \o b[1]) \in DOMAIN routes
                /\ routes[contextPath \o b[1]].handler = Builtin(b[2]))
    /\ [][(adminStarts >= 1 /\ adminStarts' = adminStarts + 1) =>
              (routes' = routes /\ ~adminPanicked')]_vars

\* C15: every pattern that leads to a task is the pattern
\* <prefix>/tasks/<name> of that task with method POST, and the start of
\* the admin environment completes with every task of the list dispatched
\* to at POST <prefix>/tasks/<name>.
C15_TasksRoutedAtTheirName ==
    /\ \A q \in DOMAIN routes :
          (routes[q].handler.kind = "task") =>
              \E k \in 1..Len(tasks) :
                  /\ routes[q].handler.id = tasks[k].id
                  /\ q = contextPath \o <<"tasks", tasks[k].name>>
                  /\ routes[q].method = "POST"
    /\ (adminStarts = 1) =>
          /\ ~adminPanicked
          /\ \A k \in 1..Len(tasks) :
                Dispatch(routes, contextPath \o <<"tasks", tasks[k].name>>).id
                    = tasks[k].id

\* C16: the task list never holds two tasks of one name, and no
\* registration of tasks crashes the process.
C16_TaskNamesUnique ==
    /\ \A j, k \in 1..Len(tasks) : (tasks[j].name = tasks[k].name) => j = k
    /\ ~adminPanicked

LogLevelStep ==
    /\ adminStarts' = adminStarts
    /\ <<request, response, loggers>>' # <<request, response, loggers>>
    /\ response'.by = TaskHandler(LogTask)
    /\ Len(request'.logger) > 0
    /\ request'.level # ""

C19_GCBetweenMarkers ==
    (response.by = TaskHandler(GCTask)) =>
        LET eff == response.effects
            at(e) == {k \in 1..Len(eff) : eff[k] = e}
        IN  /\ Cardinality(at(Write("Running GC..."))) = 1
            /\ Cardinality(at(Effect("gc", "", ""))) = 1
            /\ Cardinality(at(Write("Done!"))) = 1
            /\ \A r \in at(Write("Running GC...")), g \in at(Effect("gc", "", "")),
                  d \in at(Write("Done!")) : r < g /\ g < d

C19_Witness ==
    /\ response.by = TaskHandler(GCTask)
    /\ request.path = <<"admin", "tasks", "gc">>
    /\ response.status = StatusOK
    /\ Len(response.effects) = 3

\* The request log filter that AddFilters put on the chain of handler h.
AddedRequestLog(h) == FilterChain[h][Len(FilterChain[h]) - 1]

\* C21: once AddFilters has returned: without a configured request log it
\* succeeded with the no-op request log filter, with a RequestLogFactory it
\* used the built filter or returned the build error, with any other value
\* it returned the unsupported request log error; and when it returned an
\* error, every handler's chain is as it was before the call.
C21_RequestLogResolution ==
    (addFiltersRet # None) =>
        /\ (RequestLog = "nil") =>
               /\ addFiltersRet = Nil
               /\ \A k \in 1..Len(given) : AddedRequestLog(given[k]) = "noRequestLog"
        /\ (RequestLog = "factory") =>
               /\ addFiltersRet = Nil
               /\ \A k \in 1..Len(given) : AddedRequestLog(given[k]) = "requestLog"
        /\ (RequestLog = "failingFactory") => addFiltersRet = RequestLogBuildErr
        /\ (RequestLog = "other") => addFiltersRet = UnsupportedRequestLogErr
        /\ (addFiltersRet # Nil) => FilterChain = chainBefore

C21_Witness ==
    /\ RequestLog = "other"
    /\ addFiltersRet = UnsupportedRequestLogErr
    /\ given = <<"h1", "h2">>
    /\ chainBefore["h1"] = <<"f1">>
    /\ FilterChain = chainBefore

\* The default task is routed at POST <prefix>/tasks/<name>.
DefaultTaskRouted(task) ==
    /\ (contextPath \o TaskPattern(task)) \in DOMAIN routes
    /\ routes[contextPath \o TaskPattern(task)]
           = [method |-> "POST", handler |-> TaskHandler(task)]

\* C22: the task list starts with the default tasks gc and log from
\* construction on, a step never removes or moves a task of the list, and
\* the start of the admin environment completes with POST /tasks/gc and
\* POST /tasks/log routed to the default tasks, whatever other tasks were
\* added.
C22_DefaultTasksRouted ==
    /\ [](/\ Len(tasks) >= 2
          /\ tasks[1] = GCTask
          /\ tasks[2] = LogTask)
    /\ [][/\ Len(tasks') >= Len(tasks)
          /\ SubSeq(tasks', 1, Len(tasks)) = tasks]_vars
    /\ []((adminStarts = 1) =>
              /\ ~adminPanicked
              /\ DefaultTaskRouted(GCTask)
              /\ DefaultTaskRouted(LogTask))

====
